---- MODULE Spec2Model ----
(***************************************************************************)
(* Block-acceptance engine of the Alfis naming chain: the chain store      *)
(* (src/src/blockchain/chain.rs) with its validator check_new_block, the   *)
(* locker committee selection get_block_signers and the append path        *)
(* add_block.                                                              *)
(*                                                                         *)
(* Modelling of the primitives that live outside the listed sources        *)
(* (hash_utils, keys, Block):                                              *)
(*  - a byte string is a tuple; Bytes::default() is the empty tuple;       *)
(*  - the digest of a block is <<"H", body>>: collision free; the number   *)
(*    of leading zero bits of the digest is read off the nonce (the PoW    *)
(*    search variable selects it) and the low 64 bits off `random`;        *)
(*  - a signature is <<"S", signer, signed bytes>>;                        *)
(*  - u64 arithmetic of the committee walk is kept at width TailBits.      *)
(***************************************************************************)
EXTENDS Integers, Sequences, FiniteSets, TLC

VARIABLES
    blocks,           \* table `blocks`: id -> Block (id is the primary key)
    domains,          \* table `domains`: id -> row
    zones,            \* table `zones`: id -> row
    last_block,       \* Chain.last_block : Option<Block>
    last_full_block,  \* Chain.last_full_block : Option<Block>
    origin,           \* Chain.origin : Bytes (zero when not configured)
    now,              \* Utc::now().timestamp()
    overflow_checks,  \* build profile: arithmetic overflow panics (debug) or wraps (release)
    locker_block_signs,  \* build constant LOCKER_BLOCK_SIGNS: signing blocks asked above a full block
    halted,           \* "no" | "panic" | "hang": the thread inside the chain mutex died or spins
    adds,             \* number of add_block calls so far
    replaces,         \* number of replace_block calls so far
    first_commits,    \* history: ids of stored full blocks whose identity was new when appended
    jobs,             \* Miner.jobs : Vec<MineJob>
    mining,           \* Miner.mining : AtomicBool
    sup,              \* the supervisor thread of start_mining_thread: pc, job in hand, workers spawned
    ctx_owner,        \* holder of the Context mutex across steps: "none" | "poster" | "sup"
    handler,          \* the ActionMineLocker subscriber between its flag load and its push
    attempt,          \* number of jobs the supervisor has taken so far
    workers,          \* hashing threads: <<attempt, cpu>> -> [pc, job, block]
    live_threads,     \* the AtomicU32 of each mine_internal call: attempt -> count
    posted,           \* history: MinerStopped events published, in order
    stopped,          \* history: attempts that were hashing when ActionStopMining was delivered
    appended,         \* history: blocks the workers appended
    checked,          \* check_domain: the name under test
    dots,             \* check_domain: its allow_dots flag
    answer,           \* check_domain: <<>> before the call, <<result>> after
    zone_cache        \* Chain.zones : RefCell<HashSet<String>>, names is_zone_in_blockchain found

chainVars == <<blocks, domains, zones, last_block, last_full_block, origin, now,
               overflow_checks, locker_block_signs, halted, adds, replaces, first_commits>>

minerVars == <<jobs, mining, sup, ctx_owner, handler, attempt, workers, live_threads,
               posted, stopped, appended>>

nameVars == <<checked, dots, answer, zone_cache>>

vars == <<chainVars, minerVars, nameVars>>

-----------------------------------------------------------------------------
(* Program constants *)

KEYSTORE_DIFFICULTY == 24
ZONE_DIFFICULTY == 2
LOCKER_DIFFICULTY == 1
LOCKER_BLOCK_START == 3
\* the chain specifications run with 1; the locker-window specification also with more
LOCKER_BLOCK_SIGNS == locker_block_signs
LOCKER_BLOCK_LOCKERS == 2
LOCKER_BLOCK_INTERVAL == 3
NEW_DOMAINS_INTERVAL == 100
DOMAIN_LIFETIME == 300
FutureSkew == 60
\* u32::max_value(); TLC integers are 32-bit signed, the largest one stands for it
U32Max == 2147483647

(* Bounds of the model *)

TailBits == 4        \* width kept for the u64 tail and walk counter
MaxAdds == 3         \* add_block calls explored by Spec
MaxTicks == 1        \* clock advances explored
MaxReplaces == 1     \* replace_block calls explored by SpecFork
MaxAddsRestart == 5  \* add_block calls explored by SpecRestart
MaxAddsGenesis == 2  \* add_block calls explored by SpecGenesis
MaxOps == 2          \* add_block and replace_block calls explored by SpecReplace
MaxNameLen == 5      \* length of the names given to check_domain
Threads == 2         \* settings.mining.threads: workers per mining attempt
MaxJobs == 2         \* jobs enqueued in one run of the miner

U64 == 2 ^ TailBits

-----------------------------------------------------------------------------
(* Option<T> and Bytes *)

None == <<>>
Some(x) == <<x>>
Unwrap(o) == o[1]

EmptyBytes == <<>>

-----------------------------------------------------------------------------
(* Keys: the number of leading zero bits of the hash of each public key *)

StrongKeys == {"k1", "k2", "k3", "k4"}
WeakKeys == {"kw"}
Keys == StrongKeys \cup WeakKeys

KeyZeroBits(k) == IF k \in StrongKeys THEN KEYSTORE_DIFFICULTY ELSE KEYSTORE_DIFFICULTY - 1

check_public_key_strength(k, difficulty) == KeyZeroBits(k) >= difficulty

-----------------------------------------------------------------------------
(* Block byte image, digest and signature *)

Body(b) == <<b.index, b.timestamp, b.difficulty, b.random, b.nonce,
             b.prev_block_hash, b.pub_key, b.transaction>>

Digest(body) == <<"H", body>>

\* leading zero bits of a digest
hash_difficulty(h) == IF h = EmptyBytes THEN 0 ELSE h[2][5]

\* low 64 bits of a digest
get_tail_u64(h) == IF h = EmptyBytes THEN 0 ELSE h[2][4] % U64

check_block_hash(b) == b.hash = Digest(Body(b))

SignedBytes(b) == <<Body(b), b.hash>>

Sign(k, b) == <<"S", k, SignedBytes(b)>>

check_block_signature(b) == b.signature = Sign(b.pub_key, b)

is_genesis(b) == b.index = 1 /\ b.prev_block_hash = EmptyBytes

-----------------------------------------------------------------------------
(* Chain store: lookups *)

MaxOf(S) == CHOOSE x \in S : \A y \in S : y <= x

\* SELECT * FROM blocks WHERE id=? LIMIT 1
get_block(index) == IF index \in DOMAIN blocks THEN Some(blocks[index]) ELSE None

last_hash == IF last_block = None THEN EmptyBytes ELSE Unwrap(last_block).hash

height == IF last_block = None THEN 0 ELSE Unwrap(last_block).index

KeyTable(zone) == IF zone THEN zones ELSE domains

\* SELECT pub_key FROM <table> WHERE identity = ? ORDER BY id DESC LIMIT 1
is_id_available(identity, public_key, zone) ==
    LET t == KeyTable(zone)
        ids == {i \in DOMAIN t : t[i].identity = identity}
    IN  ids = {} \/ t[MaxOf(ids)].pub_key = public_key

is_id_in_blockchain(id, zone) ==
    \E i \in DOMAIN KeyTable(zone) : KeyTable(zone)[i].identity = id

\* the cached block when it fits, else
\* SELECT * FROM blocks WHERE `transaction`<>'' [AND pub_key = ?] ORDER BY id DESC LIMIT 1
get_last_full_block(pub_key) ==
    IF /\ last_full_block # None
       /\ (pub_key = None \/ Unwrap(last_full_block).pub_key = Unwrap(pub_key))
    THEN last_full_block
    ELSE LET ids == {i \in DOMAIN blocks :
                        /\ blocks[i].transaction # None
                        /\ (pub_key = None \/ blocks[i].pub_key = Unwrap(pub_key))}
         IN  IF ids = {} THEN None ELSE Some(blocks[MaxOf(ids)])

\* serde_json::from_str::<ZoneData> / ::<DomainData> succeed on these shapes
IsZoneData(d) == DOMAIN d = {"name", "difficulty"}
IsDomainData(d) == DOMAIN d = {"zone"}

\* SELECT data FROM zones, rows in id order, later rows replacing earlier ones of the same name
get_zones ==
    LET rows == {i \in DOMAIN zones : IsZoneData(zones[i].data)}
        names == {zones[i].data.name : i \in rows}
    IN  [n \in names |-> zones[MaxOf({i \in rows : zones[i].data.name = n})].data]

get_zone_difficulty(zone) ==
    IF zone \in DOMAIN get_zones THEN get_zones[zone].difficulty ELSE U32Max

get_difficulty_for_transaction(t) ==
    IF t.class = "domain"
    THEN IF IsDomainData(t.data)
         THEN IF t.data.zone \in DOMAIN get_zones
              THEN get_zones[t.data.zone].difficulty
              ELSE U32Max
         ELSE U32Max
    ELSE IF t.class = "zone" THEN ZONE_DIFFICULTY ELSE U32Max

next_allowed_block ==
    IF last_full_block = None THEN height + 1
    ELSE IF Unwrap(last_full_block).index < LOCKER_BLOCK_START
         THEN height + 1
         ELSE (IF Unwrap(last_full_block).index > height
               THEN Unwrap(last_full_block).index ELSE height) + LOCKER_BLOCK_SIGNS

-----------------------------------------------------------------------------
(* Locker committee *)

\* a walk that would also admit the key of the block itself
RECURSIVE SignersWalk_own_key(_, _, _, _, _)
SignersWalk_own_key(block, tail, start_index, count, result) ==
    IF Len(result) >= LOCKER_BLOCK_LOCKERS THEN [status |-> "ok", list |-> result]
    ELSE IF count >= U64 THEN [status |-> "hang", list |-> result]
    ELSE IF tail * count >= U64 /\ overflow_checks THEN [status |-> "panic", list |-> result]
    ELSE LET index == start_index + (((tail * count) % U64) % LOCKER_BLOCK_INTERVAL)
         IN  IF index \notin DOMAIN blocks THEN [status |-> "hang", list |-> result]
             ELSE LET k == blocks[index].pub_key
                      fresh == \A j \in 1..Len(result) : result[j] # k
                  IN  SignersWalk_own_key(block, tail, start_index, count + 1,
                                          IF fresh THEN Append(result, k) ELSE result)

\* The walk of get_block_signers from `count` on. The products tail*count repeat
\* with period U64, so a walk that has not filled the committee after U64 steps
\* never does; a walk index with no stored block is retried forever because
\* count only advances inside `if let Some(b)`.
RECURSIVE SignersWalk(_, _, _, _, _)
SignersWalk(block, tail, start_index, count, result) ==
    IF Len(result) >= LOCKER_BLOCK_LOCKERS THEN [status |-> "ok", list |-> result]
    ELSE IF count >= U64 THEN [status |-> "hang", list |-> result]
    ELSE IF tail * count >= U64 /\ overflow_checks THEN [status |-> "panic", list |-> result]
    ELSE LET index == start_index + (((tail * count) % U64) % LOCKER_BLOCK_INTERVAL)
         IN  IF index \notin DOMAIN blocks THEN [status |-> "hang", list |-> result]
             ELSE LET k == blocks[index].pub_key
                      fresh == k # block.pub_key /\ \A j \in 1..Len(result) : result[j] # k
                  IN  SignersWalk(block, tail, start_index, count + 1,
                                  IF fresh THEN Append(result, k) ELSE result)

Min(a, b) == IF a < b THEN a ELSE b

get_block_signers(block) ==
    IF block.index < LOCKER_BLOCK_START THEN [status |-> "ok", list |-> <<>>]
    ELSE LET tail == get_tail_u64(block.hash)
             interval == Min(block.index, LOCKER_BLOCK_INTERVAL) - 1
             start_index == block.index - interval
         IN  SignersWalk(block, tail, start_index, 1, <<>>)

SeqToSet(s) == {s[j] : j \in 1..Len(s)}

\* "Good" | "Bad", or "panic" | "hang" when the call does not return
check_block_for_signing(block, full_block) ==
    LET signers == get_block_signers(full_block)
        between == (full_block.index + 1)..(block.index - 1)
        stops == {i \in between : get_block(i) = None \/ blocks[i].pub_key = block.pub_key}
    IN  IF signers.status # "ok" THEN signers.status
        ELSE IF block.pub_key \notin SeqToSet(signers.list) THEN "Bad"
        ELSE IF stops = {} THEN "Good"
        ELSE LET i == CHOOSE x \in stops : \A y \in stops : x <= y
             IN  IF get_block(i) = None THEN "panic" ELSE "Bad"

-----------------------------------------------------------------------------
(* Validator *)

\* a locker rule that lets a full block through before the last full block is locked
LockerRule_full_unlocked(block) ==
    IF block.index >= LOCKER_BLOCK_START /\ last_full_block # None
    THEN LET full_block == Unwrap(last_full_block)
             underflow == height < full_block.index
             locker_blocks == (height - full_block.index) % U64
             signing == check_block_for_signing(block, full_block)
         IN  IF underflow /\ overflow_checks THEN "panic"
             ELSE IF locker_blocks < LOCKER_BLOCK_LOCKERS /\ block.transaction = None
             THEN IF signing = "Good" THEN "pass" ELSE signing
             ELSE "pass"
    ELSE "pass"

\* the locker sub-protocol of check_new_block: "Bad", "panic", "hang" or "pass"
LockerRule(block) ==
    IF block.index >= LOCKER_BLOCK_START /\ last_full_block # None
    THEN LET full_block == Unwrap(last_full_block)
             \* u64 subtraction: panics with overflow checks, wraps without
             underflow == height < full_block.index
             locker_blocks == (height - full_block.index) % U64
             signing == check_block_for_signing(block, full_block)
         IN  IF underflow /\ overflow_checks THEN "panic"
             ELSE IF locker_blocks < LOCKER_BLOCK_SIGNS
             THEN IF block.transaction # None THEN "Bad"
                  ELSE IF signing = "Good" THEN "pass" ELSE signing
             ELSE IF locker_blocks < LOCKER_BLOCK_LOCKERS /\ block.transaction = None
             THEN IF signing = "Good" THEN "pass" ELSE signing
             ELSE "pass"
    ELSE "pass"

\* the comparison with the stored chain for block.index <= last_block.index
TwinOrFork(block, last) ==
    IF block.index <= last.index
    THEN IF block.index = last.index /\ last.hash = block.hash THEN "Twin"
         ELSE IF get_block(block.index) # None
         THEN IF Unwrap(get_block(block.index)).hash # block.hash THEN "Fork" ELSE "Twin"
         ELSE "Good"
    ELSE "Good"

\* the cool-down test on a full block: an identity new to the chain, too soon after
\* the signer's last full block
CoolDownRejects(block) ==
    LET transaction == Unwrap(block.transaction)
        last == get_last_full_block(Some(block.pub_key))
        new_id == ~is_id_in_blockchain(transaction.identity, FALSE)
    IN  /\ last # None
        /\ new_id
        /\ Unwrap(last).timestamp + NEW_DOMAINS_INTERVAL > block.timestamp

\* the checks on the transaction of a full block
TransactionOk(block) ==
    \/ block.transaction = None
    \/ /\ is_id_available(Unwrap(block.transaction).identity, block.pub_key, FALSE)
       /\ ~CoolDownRejects(block)

RequiredDifficulty(block) ==
    IF block.transaction = None
    THEN IF block.index = 1 THEN ZONE_DIFFICULTY ELSE LOCKER_DIFFICULTY
    ELSE get_difficulty_for_transaction(Unwrap(block.transaction))

\* a positional check that applies the locker rule before the Future test
check_next_block_locker_first(block, last) ==
    IF block.timestamp < last.timestamp /\ block.index > last.index THEN "Bad"
    ELSE IF LockerRule(block) # "pass" THEN LockerRule(block)
    ELSE IF last.index + 1 < block.index THEN "Future"
    ELSE TwinOrFork(block, last)

\* the positional check on a chain whose last block is `last`
check_next_block(block, last) ==
    IF block.timestamp < last.timestamp /\ block.index > last.index THEN "Bad"
    ELSE IF last.index + 1 < block.index THEN "Future"
    ELSE IF LockerRule(block) # "pass" THEN LockerRule(block)
    ELSE TwinOrFork(block, last)

\* a positional check that rejects a block that is not a genesis
check_first_block_reject(block) ==
    IF ~is_genesis(block) THEN "Bad"
    ELSE IF origin # EmptyBytes /\ block.hash # origin THEN "Bad"
    ELSE "Good"

\* a positional check that skips the comparison with the configured origin
check_first_block_any_origin(block) ==
    IF ~is_genesis(block) THEN "Future" ELSE "Good"

\* the positional check on an empty chain
check_first_block(block) ==
    IF ~is_genesis(block) THEN "Future"
    ELSE IF origin # EmptyBytes /\ block.hash # origin THEN "Bad"
    ELSE "Good"

\* "Good" | "Bad" | "Future" | "Twin" | "Fork", or "panic" | "hang" when the call does not return
check_new_block(block) ==
    IF block.timestamp > now + FutureSkew THEN "Bad"
    ELSE IF ~check_public_key_strength(block.pub_key, KEYSTORE_DIFFICULTY) THEN "Bad"
    ELSE IF block.difficulty < RequiredDifficulty(block) THEN "Bad"
    ELSE IF hash_difficulty(block.hash) < block.difficulty THEN "Bad"
    ELSE IF ~check_block_hash(block) THEN "Bad"
    ELSE IF ~check_block_signature(block) THEN "Bad"
    ELSE IF ~TransactionOk(block) THEN "Bad"
    ELSE IF last_block = None THEN check_first_block(block)
    ELSE check_next_block(block, Unwrap(last_block))

-----------------------------------------------------------------------------
(* Chain store: writes *)

Row(timestamp, t) ==
    [timestamp |-> timestamp, identity |-> t.identity, confirmation |-> t.confirmation,
     data |-> t.data, pub_key |-> t.pub_key]

\* add_block: the caches are set first; the INSERT fails on a taken id and then no
\* derived row is written; a derived row that cannot be written panics (expect)
add_block(block) ==
    /\ last_block' = Some(block)
    /\ last_full_block' = IF block.transaction # None THEN Some(block) ELSE last_full_block
    /\ IF block.index \in DOMAIN blocks
       THEN UNCHANGED <<blocks, domains, zones, halted>>
       ELSE /\ blocks' = (block.index :> block) @@ blocks
            /\ IF block.transaction = None
               THEN UNCHANGED <<domains, zones, halted>>
               ELSE LET t == Unwrap(block.transaction)
                        row == Row(block.timestamp, t)
                    IN  IF t.class = "domain" /\ block.index \notin DOMAIN domains
                        THEN /\ domains' = (block.index :> row) @@ domains
                             /\ UNCHANGED <<zones, halted>>
                        ELSE IF t.class = "zone" /\ block.index \notin DOMAIN zones
                        THEN /\ zones' = (block.index :> row) @@ zones
                             /\ UNCHANGED <<domains, halted>>
                        ELSE /\ halted' = "panic"
                             /\ UNCHANGED <<domains, zones>>

-----------------------------------------------------------------------------
(* Blocks offered to the validator *)

Tx(class, identity, data, key) ==
    [class |-> class, identity |-> identity, confirmation |-> "c", data |-> data,
     pub_key |-> key]

\* the zone "z" asks for the difficulty of a locker block from its domains
ZoneTx(key) == Tx("zone", "Z", [name |-> "z", difficulty |-> LOCKER_DIFFICULTY], key)

DomainTx(identity, key) == Tx("domain", identity, [zone |-> "z"], key)

\* what each miner wants to register; every miner also mines lockers
TxChoices(key) ==
    {None} \cup
    (IF key = "k1" THEN {Some(DomainTx("X", key)), Some(DomainTx("Y", key))}
     ELSE {Some(ZoneTx(key))})

\* a block as a miner completes it: digest set by find_hash, then signed
MkBlock(index, timestamp, difficulty, random, nonce, prev, key, tx) ==
    LET body == <<index, timestamp, difficulty, random, nonce, prev, key, tx>>
        hash == Digest(body)
    IN  [index |-> index, timestamp |-> timestamp, difficulty |-> difficulty,
         random |-> random, nonce |-> nonce, prev_block_hash |-> prev, hash |-> hash,
         pub_key |-> key, signature |-> <<"S", key, <<body, hash>> >>,
         transaction |-> tx]

\* the difficulty a miner's template carries
TemplateDifficulty(index, tx) ==
    IF tx = None THEN (IF index = 1 THEN ZONE_DIFFICULTY ELSE LOCKER_DIFFICULTY)
    ELSE IF Unwrap(tx).class = "zone" THEN ZONE_DIFFICULTY ELSE ZoneTx("k2").data.difficulty

\* values of `random`: tail 1 visits the window in order; tail 9 overflows the u64
\* product tail * count at count = 2 (9 * 2 >= 2 ^ TailBits)
Randoms == {1, 9}

\* the keys that mine on this chain; k4 mines on a competing fork
Miners == {"k1", "k2", "k3"}

Shapes == UNION {{<<k, t>> : t \in TxChoices(k)} : k \in Miners}

\* a well-formed block of shape s = <<key, transaction>>
Shaped(i, ts, r, prev, s) ==
    MkBlock(i, ts, TemplateDifficulty(i, s[2]), r, TemplateDifficulty(i, s[2]), prev, s[1], s[2])

\* some digest that is not the digest of a stored block
OtherHash == Digest(<<0, 0, 0, 0, 0, EmptyBytes, "other", None>>)

\* blocks of the local miner and of honest peers on the same tip
Mined == {Shaped(height + 1, now, r, last_hash, s) : r \in Randoms, s \in Shapes}

\* blocks that were built earlier, or for another height
Relayed ==
    {Shaped(height + 1, 0, 1, last_hash, s) : s \in Shapes}
    \cup {Shaped(i, now, 1, last_hash, s) : i \in 0..(height + 2), s \in Shapes}

\* blocks that do not link to the tip
Unlinked ==
    {Shaped(height + 1, now, 1, prev, <<"k3", None>>) : prev \in {EmptyBytes, OtherHash}}

\* blocks with one defect each: clock skew, key strength, difficulty, digest, signature
Malformed ==
    UNION {
        LET i == height + 1
            d == TemplateDifficulty(i, s[2])
            good == Shaped(i, now, 1, last_hash, s)
        IN  { Shaped(i, now + FutureSkew, 1, last_hash, s),
              Shaped(i, now + FutureSkew + 1, 1, last_hash, s),
              Shaped(i, now, 1, last_hash, <<"kw", None>>),
              MkBlock(i, now, d - 1, 1, d - 1, last_hash, s[1], s[2]),
              MkBlock(i, now, d, 1, d - 1, last_hash, s[1], s[2]),
              [good EXCEPT !.hash = OtherHash],
              [good EXCEPT !.hash = Digest(Body([good EXCEPT !.nonce = d + 1])),
                           !.nonce = d - 1],
              [good EXCEPT !.signature = Sign("k1", good)] }
        : s \in {<<"k2", None>>, <<"k2", Some(ZoneTx("k2"))>>} }

\* blocks the node already holds, sent again by a peer
Known == {blocks[i] : i \in DOMAIN blocks} \cup (IF last_block = None THEN {} ELSE {Unwrap(last_block)})

Candidates == Mined \cup Relayed \cup Unlinked \cup Malformed \cup Known

\* locker blocks of a competing fork, for the heights this chain already holds
Rival == {Shaped(i, now, 1, EmptyBytes, <<"k4", None>>) : i \in 1..height}

-----------------------------------------------------------------------------
(* Actions *)

\* the genesis an operator may have configured as `origin`
ConfiguredOrigin == Shaped(1, 0, 1, EmptyBytes, <<"k2", Some(ZoneTx("k2"))>>).hash

\* identities committed by the stored full blocks
CommittedIdentities(db) ==
    {Unwrap(db[i].transaction).identity : i \in {j \in DOMAIN db : db[j].transaction # None}}

\* the miner before start_mining_thread has taken any job (Miner::new)
MinerIdle ==
    /\ jobs = <<>>
    /\ mining = FALSE
    /\ sup = [pc |-> "loop", job |-> None, spawned |-> 0]
    /\ ctx_owner = "none"
    /\ handler = None
    /\ attempt = 0
    /\ workers = <<>>
    /\ live_threads = <<>>
    /\ posted = <<>>
    /\ stopped = {}
    /\ appended = <<>>

\* no name is being checked
NoName ==
    /\ checked = <<>>
    /\ dots = FALSE
    /\ answer = None
    /\ zone_cache = {}

Init ==
    /\ blocks = <<>>
    /\ domains = <<>>
    /\ zones = <<>>
    /\ last_block = None
    /\ last_full_block = None
    /\ origin \in {EmptyBytes, ConfiguredOrigin}
    /\ now = 0
    /\ overflow_checks \in BOOLEAN
    /\ locker_block_signs = 1
    /\ halted = "no"
    /\ adds = 0
    /\ replaces = 0
    /\ first_commits = {}
    /\ MinerIdle
    /\ NoName

\* a block arrives (from the miner or from a peer): classify, append when Good
ReceiveBlock(block) ==
    /\ halted = "no"
    /\ UNCHANGED <<minerVars, nameVars>>
    /\ LET v == check_new_block(block)
       IN  IF v = "Good"
           THEN /\ add_block(block)
                /\ adds' = adds + 1
                /\ first_commits' =
                       IF /\ block.index \notin DOMAIN blocks
                          /\ block.transaction # None
                          /\ Unwrap(block.transaction).identity \notin CommittedIdentities(blocks)
                       THEN first_commits \cup {block.index}
                       ELSE first_commits
                /\ UNCHANGED <<origin, now, overflow_checks, locker_block_signs, replaces>>
           ELSE IF v \in {"panic", "hang"}
           THEN /\ halted' = v
                /\ UNCHANGED <<blocks, domains, zones, last_block, last_full_block,
                               origin, now, overflow_checks, locker_block_signs, adds, replaces, first_commits>>
           ELSE UNCHANGED vars

\* a replace_block that leaves the derived rows of the old block in place
replace_block_keep_rows(index, block) ==
    /\ last_block' = Some(block)
    /\ last_full_block' = IF block.transaction # None THEN Some(block) ELSE last_full_block
    /\ blocks' = [blocks EXCEPT ![block.index] = block]
    /\ IF block.transaction = None
       THEN UNCHANGED <<domains, zones, halted>>
       ELSE LET t == Unwrap(block.transaction)
                row == Row(block.timestamp, t)
            IN  IF t.class = "domain" /\ block.index \notin DOMAIN domains
                THEN /\ domains' = (block.index :> row) @@ domains
                     /\ UNCHANGED <<zones, halted>>
                ELSE IF t.class = "zone" /\ block.index \notin DOMAIN zones
                THEN /\ zones' = (block.index :> row) @@ zones
                     /\ UNCHANGED <<domains, halted>>
                ELSE /\ halted' = "panic"
                     /\ UNCHANGED <<domains, zones>>

\* replace_block(index, block): the derived rows of the old block at `index` are
\* deleted, then the row of block.index is overwritten and the derived row of the
\* new block written
replace_block(index, block) ==
    LET old_block == Unwrap(get_block(index))
        purged_d == IF old_block.transaction # None
                    THEN [i \in DOMAIN domains \ {index} |-> domains[i]] ELSE domains
        purged_z == IF old_block.transaction # None
                    THEN [i \in DOMAIN zones \ {index} |-> zones[i]] ELSE zones
    IN  /\ last_block' = Some(block)
        /\ last_full_block' = IF block.transaction # None THEN Some(block) ELSE last_full_block
        /\ blocks' = [blocks EXCEPT ![block.index] = block]
        /\ IF block.transaction = None
           THEN /\ domains' = purged_d
                /\ zones' = purged_z
                /\ UNCHANGED halted
           ELSE LET t == Unwrap(block.transaction)
                    row == Row(block.timestamp, t)
                IN  IF t.class = "domain" /\ block.index \notin DOMAIN purged_d
                    THEN /\ domains' = (block.index :> row) @@ purged_d
                         /\ zones' = purged_z
                         /\ UNCHANGED halted
                    ELSE IF t.class = "zone" /\ block.index \notin DOMAIN purged_z
                    THEN /\ zones' = (block.index :> row) @@ purged_z
                         /\ domains' = purged_d
                         /\ UNCHANGED halted
                    ELSE /\ halted' = "panic"
                         /\ domains' = purged_d
                         /\ zones' = purged_z

\* the fork resolution: a block classified Fork wins at its height and replaces the
\* stored block of that height
ReplaceBlock(block) ==
    /\ halted = "no"
    /\ check_new_block(block) = "Fork"
    /\ replace_block(block.index, block)
    /\ first_commits' = first_commits \ {block.index}
    /\ replaces' = replaces + 1
    /\ UNCHANGED <<origin, now, overflow_checks, locker_block_signs, adds>>
    /\ UNCHANGED <<minerVars, nameVars>>

Tick ==
    /\ halted = "no"
    /\ now < MaxTicks * NEW_DOMAINS_INTERVAL
    /\ now' = now + NEW_DOMAINS_INTERVAL
    /\ UNCHANGED <<blocks, domains, zones, last_block, last_full_block, origin,
                   overflow_checks, locker_block_signs, halted, adds, replaces, first_commits>>
    /\ UNCHANGED <<minerVars, nameVars>>

Next ==
    \/ \E block \in Candidates : adds < MaxAdds /\ ReceiveBlock(block)
    \/ Tick

Spec == Init /\ [][Next]_vars

\* the first blocks of a chain
NextGenesis ==
    \/ \E block \in Candidates : adds < MaxAddsGenesis /\ ReceiveBlock(block)
    \/ Tick

SpecGenesis == Init /\ [][NextGenesis]_vars

\* the same appends, with the fork resolution replacing stored blocks
NextFork ==
    \/ \E block \in Mined : adds < MaxAdds /\ ReceiveBlock(block)
    \/ \E block \in Relayed \cup Rival : replaces < MaxReplaces /\ ReplaceBlock(block)
    \/ Tick

SpecFork == Init /\ [][NextFork]_vars

\* a short chain on which the fork resolution replaces blocks
NextReplace ==
    \/ \E block \in Mined : adds + replaces < MaxOps /\ ReceiveBlock(block)
    \/ \E block \in Relayed \cup Rival : adds + replaces < MaxOps /\ ReplaceBlock(block)
    \/ Tick

SpecReplace == Init /\ [][NextReplace]_vars

-----------------------------------------------------------------------------
(* A node restarted on a stored chain: Chain::new reads the caches back from the
   database (init_db). The stored chain is one that Spec reaches from the empty
   database (see PersistedReachable): a zone by k2, a locker by k2 or k3, then
   a domain by k1 at LOCKER_BLOCK_START. *)

Persisted1 == Shaped(1, 0, 1, EmptyBytes, <<"k2", Some(ZoneTx("k2"))>>)
Persisted2(k) == Shaped(2, 0, 1, Persisted1.hash, <<k, None>>)
Persisted3(k, r) ==
    Shaped(3, NEW_DOMAINS_INTERVAL, r, Persisted2(k).hash, <<"k1", Some(DomainTx("X", "k1"))>>)

PersistedBlocks(k, r) ==
    (1 :> Persisted1) @@ (2 :> Persisted2(k)) @@ (3 :> Persisted3(k, r))

\* the miner of block 2 and the `random` of block 3 of the stored chain
PersistedChains == {PersistedBlocks(k, r) : k \in {"k2", "k3"}, r \in Randoms}

\* init_db: SELECT * FROM blocks ORDER BY id DESC LIMIT 1, then the last full block
LoadLastBlock(db) == IF DOMAIN db = {} THEN None ELSE Some(db[MaxOf(DOMAIN db)])

LoadLastFullBlock(db) ==
    LET full == {i \in DOMAIN db : db[i].transaction # None}
    IN  IF full = {} THEN None ELSE Some(db[MaxOf(full)])

InitRestart ==
    /\ blocks \in PersistedChains
    /\ domains = (3 :> Row(NEW_DOMAINS_INTERVAL, DomainTx("X", "k1")))
    /\ zones = (1 :> Row(0, ZoneTx("k2")))
    /\ last_block = LoadLastBlock(blocks)
    /\ last_full_block = LoadLastFullBlock(blocks)
    /\ origin = EmptyBytes
    /\ now = NEW_DOMAINS_INTERVAL
    /\ overflow_checks \in BOOLEAN
    /\ locker_block_signs = 1
    /\ halted = "no"
    /\ adds = 0
    /\ replaces = 0
    /\ first_commits = {1, 3}
    /\ MinerIdle
    /\ NoName

RestartShapes ==
    {<<"k2", None>>, <<"k1", Some(DomainTx("X", "k1"))>>, <<"k1", Some(DomainTx("Y", "k1"))>>}

\* blocks a peer relays to the restarted node: fresh or built earlier, for the
\* next height or for height 0
RestartCandidates ==
    {Shaped(i, ts, 1, last_hash, s) : i \in {0, height + 1}, ts \in {0, now}, s \in RestartShapes}

NextRestart ==
    \E block \in RestartCandidates : adds < MaxAddsRestart /\ ReceiveBlock(block)

SpecRestart == InitRestart /\ [][NextRestart]_vars

\* the stored chain of SpecRestart is reached by Spec from the empty database
PersistedReachable ==
    /\ blocks \in PersistedChains
    /\ domains = (3 :> Row(NEW_DOMAINS_INTERVAL, DomainTx("X", "k1")))
    /\ zones = (1 :> Row(0, ZoneTx("k2")))
    /\ last_block = LoadLastBlock(blocks)
    /\ last_full_block = LoadLastFullBlock(blocks)
    /\ first_commits = {1, 3}
    /\ adds = 3

-----------------------------------------------------------------------------
(* Claims *)

FullIds(db) == {i \in DOMAIN db : db[i].transaction # None}

\* C1 (hash linkage): every stored block with index i >= 2 whose predecessor is
\* stored has prev_block_hash equal to the hash of the stored block i-1.
C1_HashLinkage ==
    \A i \in DOMAIN blocks :
        (i >= 2 /\ (i - 1) \in DOMAIN blocks)
            => blocks[i].prev_block_hash = blocks[i - 1].hash

\* C2 (index contiguity): the stored indices are exactly 1..height(), and on a
\* non-empty chain only a candidate with index height()+1 is classified Good.
C2_IndexContiguity ==
    /\ DOMAIN blocks = 1..height
    /\ last_block # None =>
           \A b \in Candidates : check_new_block(b) = "Good" => b.index = height + 1

\* C4 (identity uniqueness): all stored full blocks committing one identity carry
\* the same pub_key, and a full candidate whose identity is committed by another
\* pub_key is classified Bad.
C4_IdentityUniqueness ==
    /\ \A i, j \in FullIds(blocks) :
           Unwrap(blocks[i].transaction).identity = Unwrap(blocks[j].transaction).identity
               => blocks[i].pub_key = blocks[j].pub_key
    /\ \A b \in Candidates :
           (/\ b.transaction # None
            /\ \E i \in FullIds(blocks) :
                   /\ Unwrap(blocks[i].transaction).identity = Unwrap(b.transaction).identity
                   /\ blocks[i].pub_key # b.pub_key)
               => check_new_block(b) = "Bad"

\* C8 (monotone next_allowed_block): no Good-classified append lowers
\* next_allowed_block().
C8_NextAllowedMonotone == [][next_allowed_block' >= next_allowed_block]_vars

\* C10 (committee selection terminates): for every stored full block f with
\* f.index >= LOCKER_BLOCK_START the walk of get_block_signers(f) returns.
C10_SignersTerminate ==
    \A i \in FullIds(blocks) :
        i >= LOCKER_BLOCK_START => get_block_signers(blocks[i]).status = "ok"

\* C3 (locker coverage): for every stored full block f with f.index >=
\* LOCKER_BLOCK_START and height() - f.index >= LOCKER_BLOCK_SIGNS, the blocks at
\* f.index+1 .. f.index+LOCKER_BLOCK_SIGNS are locker blocks with pairwise distinct
\* pub_keys, all members of signers(f) and none equal to f.pub_key.
C3_LockerCoverage ==
    \A i \in FullIds(blocks) :
        (i >= LOCKER_BLOCK_START /\ height >= i /\ height - i >= LOCKER_BLOCK_SIGNS)
            => LET f == blocks[i]
                   above == (i + 1)..(i + LOCKER_BLOCK_SIGNS)
               IN  /\ \A j \in above :
                          /\ j \in DOMAIN blocks
                          /\ blocks[j].transaction = None
                          /\ blocks[j].pub_key \in SeqToSet(get_block_signers(f).list)
                          /\ blocks[j].pub_key # f.pub_key
                   /\ \A j, k \in above :
                          (j # k /\ j \in DOMAIN blocks /\ k \in DOMAIN blocks)
                              => blocks[j].pub_key # blocks[k].pub_key

\* C5 (cool-down): two stored full blocks by the same pub_key, each committing an
\* identity that was not in the chain before it, have timestamps at least
\* NEW_DOMAINS_INTERVAL apart.
C5_CoolDown ==
    \A i, j \in first_commits :
        (i # j /\ blocks[i].pub_key = blocks[j].pub_key)
            => \/ blocks[i].timestamp - blocks[j].timestamp >= NEW_DOMAINS_INTERVAL
               \/ blocks[j].timestamp - blocks[i].timestamp >= NEW_DOMAINS_INTERVAL

\* C7 (no double acceptance): after add_block(b) of a Good b, a verdict of
\* check_new_block(b) on the extended chain is Twin or Bad.
C7_NoDoubleAcceptance ==
    (adds > 0 /\ halted = "no")
        => check_new_block(Unwrap(last_block)) \in {"Twin", "Bad"}

\* the same, counting only the calls that return
C7_Returned ==
    (adds > 0 /\ halted = "no")
        => check_new_block(Unwrap(last_block)) \notin {"Good", "Fork", "Future"}

\* C9 (signers(f) depends on f alone): a step that leaves a stored full block f in
\* place (an append, or replace_block on another index) leaves the list returned
\* by get_block_signers(f) unchanged, in content and order.
C9_SignersOfFAlone ==
    [][\A i \in FullIds(blocks) :
           (/\ i \in DOMAIN blocks'
            /\ blocks'[i] = blocks[i]
            /\ get_block_signers(blocks[i]).status = "ok"
            /\ get_block_signers(blocks[i])'.status = "ok")
               => get_block_signers(blocks[i])'.list = get_block_signers(blocks[i]).list]_vars

\* the checks every candidate passes before the positional check
PassesBlockChecks(b) ==
    /\ check_public_key_strength(b.pub_key, KEYSTORE_DIFFICULTY)
    /\ b.difficulty >= RequiredDifficulty(b)
    /\ hash_difficulty(b.hash) >= b.difficulty
    /\ check_block_hash(b)
    /\ check_block_signature(b)

OriginAllows(b) == origin = EmptyBytes \/ b.hash = origin

\* C6 as stated: on an empty chain check_new_block(b) is Good if and only if b is a
\* genesis block that passes the key-strength, difficulty, hash and signature
\* checks and, when an origin is configured, b.hash equals it.
C6_AsStated ==
    last_block = None =>
        \A b \in Candidates :
            check_new_block(b) = "Good"
                <=> (is_genesis(b) /\ PassesBlockChecks(b) /\ OriginAllows(b))

\* C6 amended: on an empty chain check_new_block(b) is Good if and only if b is a
\* genesis block whose timestamp is at most 60 s ahead of the clock, that passes
\* the key-strength, difficulty, hash and signature checks and, when an origin is
\* configured, has b.hash equal to it.
C6_EmptyChainGood ==
    last_block = None =>
        \A b \in Candidates :
            check_new_block(b) = "Good"
                <=> (/\ is_genesis(b)
                     /\ b.timestamp <= now + FutureSkew
                     /\ PassesBlockChecks(b)
                     /\ OriginAllows(b))

\* an empty chain with an origin configured, offered the configured genesis, a
\* valid genesis with another hash, and a valid genesis from the future
C6_Witness ==
    /\ last_block = None
    /\ origin # EmptyBytes
    /\ \E b \in Candidates : check_new_block(b) = "Good" /\ b.hash = origin
    /\ \E b \in Candidates :
           is_genesis(b) /\ PassesBlockChecks(b) /\ b.timestamp <= now + FutureSkew
           /\ b.hash # origin /\ check_new_block(b) = "Bad"
    /\ \E b \in Candidates :
           is_genesis(b) /\ PassesBlockChecks(b) /\ b.timestamp > now + FutureSkew
           /\ check_new_block(b) = "Bad"

\* the checks of check_new_block that precede the positional check
PassesEarlyChecks(b) ==
    /\ b.timestamp <= now + FutureSkew
    /\ PassesBlockChecks(b)
    /\ TransactionOk(b)

\* a candidate at index >= LOCKER_BLOCK_START while the last full block f has
\* k = height() - f.index signing blocks above it, 0 <= k < bound
BeforeLock(b, bound) ==
    /\ last_block # None
    /\ last_full_block # None
    /\ b.index >= LOCKER_BLOCK_START
    /\ height >= Unwrap(last_full_block).index
    /\ height - Unwrap(last_full_block).index < bound

SignsOnce(b, f) ==
    /\ get_block_signers(f).status = "ok"
    /\ b.pub_key \in SeqToSet(get_block_signers(f).list)
    /\ \A i \in (f.index + 1)..(b.index - 1) :
           i \in DOMAIN blocks => blocks[i].pub_key # b.pub_key

\* C12 (locker check): a locker candidate with LOCKER_BLOCK_START <= index <=
\* height() + 1 and k = height() - f.index < LOCKER_BLOCK_LOCKERS is classified Bad
\* unless its pub_key is in signers(f) and has not signed above f yet; with
\* k >= LOCKER_BLOCK_LOCKERS the locker rule rejects nothing.
C12_LockerCheck ==
    \A b \in Candidates :
        /\ (BeforeLock(b, LOCKER_BLOCK_LOCKERS) /\ b.transaction = None /\ b.index <= height + 1)
               => (check_new_block(b) = "Bad" \/ SignsOnce(b, Unwrap(last_full_block)))
        /\ (/\ last_block # None /\ last_full_block # None
            /\ height - Unwrap(last_full_block).index >= LOCKER_BLOCK_LOCKERS)
               => LockerRule(b) = "pass"

\* the same, for the calls that return
C12_Returned ==
    \A b \in Candidates :
        (BeforeLock(b, LOCKER_BLOCK_LOCKERS) /\ b.transaction = None /\ b.index <= height + 1)
            => (check_new_block(b) \in {"Bad", "panic", "hang"}
                \/ SignsOnce(b, Unwrap(last_full_block)))

\* C13 (Future verdict): on a non-empty chain a candidate that passes the timestamp,
\* key-strength, difficulty, hash, signature and transaction checks is classified
\* Future when timestamp >= last.timestamp and index > last.index + 1, whatever the
\* locker rule would say, and Bad when index > last.index and timestamp <
\* last.timestamp.
C13_FutureVerdict ==
    last_block # None =>
        \A b \in Candidates :
            PassesEarlyChecks(b) =>
                LET last == Unwrap(last_block)
                IN  /\ (b.timestamp >= last.timestamp /\ b.index > last.index + 1)
                           => check_new_block(b) = "Future"
                    /\ (b.index > last.index /\ b.timestamp < last.timestamp)
                           => check_new_block(b) = "Bad"

\* a chain offered a candidate two heights ahead that the locker rule would not
\* pass, and a candidate for the next height stamped before the last block
C13_Witness ==
    /\ last_block # None
    /\ \E b \in Candidates :
           /\ PassesEarlyChecks(b)
           /\ b.timestamp >= Unwrap(last_block).timestamp
           /\ b.index > height + 1
           /\ LockerRule(b) # "pass"
           /\ check_new_block(b) = "Future"
    /\ \E b \in Candidates :
           /\ PassesEarlyChecks(b)
           /\ b.index > height
           /\ b.timestamp < Unwrap(last_block).timestamp
           /\ check_new_block(b) = "Bad"

\* C14 (Twin versus Fork): a candidate with index <= height() that passes all
\* earlier checks is Twin exactly when the stored block at its index has its hash,
\* Fork exactly when the stored block at its index has another hash, and never Good.
C14_TwinVersusFork ==
    last_block # None =>
        \A b \in Candidates :
            (b.index <= height /\ PassesEarlyChecks(b) /\ LockerRule(b) = "pass")
                => LET v == check_new_block(b)
                       stored == get_block(b.index)
                   IN  /\ v # "Good"
                       /\ v = "Twin" <=> (stored # None /\ Unwrap(stored).hash = b.hash)
                       /\ v = "Fork" <=> (stored # None /\ Unwrap(stored).hash # b.hash)

\* C15 as stated: on an empty chain a candidate that passes the earlier checks and
\* is not a genesis block is classified Bad.
C15_AsStated ==
    last_block = None =>
        \A b \in Candidates :
            (PassesEarlyChecks(b) /\ ~is_genesis(b)) => check_new_block(b) = "Bad"

\* C15 amended: on an empty chain a candidate that passes the earlier checks and is
\* not a genesis block is classified Future.
C15_EmptyChainFuture ==
    last_block = None =>
        \A b \in Candidates :
            (PassesEarlyChecks(b) /\ ~is_genesis(b)) => check_new_block(b) = "Future"

\* an empty chain offered well-formed blocks with index 2 and with index 1 and a
\* non-empty prev_block_hash
C15_Witness ==
    /\ last_block = None
    /\ \E b \in Candidates : PassesEarlyChecks(b) /\ b.index = 2 /\ check_new_block(b) = "Future"
    /\ \E b \in Candidates :
           /\ PassesEarlyChecks(b)
           /\ b.index = 1
           /\ b.prev_block_hash # EmptyBytes
           /\ check_new_block(b) = "Future"

\* the table a transaction's derived row is written to
TableOf(t) == IF t.class = "zone" THEN zones ELSE domains

\* the pub_key of the candidate owns its transaction identity in the chain
Owns(b) ==
    LET t == Unwrap(b.transaction)
        ids == {i \in DOMAIN TableOf(t) : TableOf(t)[i].identity = t.identity}
    IN  ids # {} /\ TableOf(t)[MaxOf(ids)].pub_key = b.pub_key

\* the transaction identity of the candidate is in neither table
NewToChain(b) ==
    LET t == Unwrap(b.transaction)
    IN  /\ \A i \in DOMAIN zones : zones[i].identity # t.identity
        /\ \A i \in DOMAIN domains : domains[i].identity # t.identity

\* C16 (cool-down exemption): a full candidate whose pub_key already owns its
\* identity, zone or domain, is not rejected by the cool-down rule, and a candidate
\* committing a new identity exactly NEW_DOMAINS_INTERVAL after the signer's last
\* full block is not rejected by it either.
C16_CoolDownExemption ==
    \A b \in Candidates :
        b.transaction # None =>
            /\ Owns(b) => ~CoolDownRejects(b)
            /\ (/\ NewToChain(b)
                /\ get_last_full_block(Some(b.pub_key)) # None
                /\ b.timestamp =
                       Unwrap(get_last_full_block(Some(b.pub_key))).timestamp + NEW_DOMAINS_INTERVAL)
                   => ~CoolDownRejects(b)

\* the rows of table t keyed by another index than i are the same in u
SameElsewhere(t, u, i) ==
    /\ DOMAIN t \ {i} = DOMAIN u \ {i}
    /\ \A j \in DOMAIN t \ {i} : u[j] = t[j]

ChainInvariants(db) ==
    \A j \in DOMAIN db :
        /\ db[j].index = j
        /\ (j >= 2 /\ (j - 1) \in DOMAIN db) => db[j].prev_block_hash = db[j - 1].hash
        /\ check_block_hash(db[j])
        /\ hash_difficulty(db[j].hash) >= db[j].difficulty
        /\ check_block_signature(db[j])

\* C18 (replace_block preserves the chain invariants): when a chain that satisfies
\* the index, hash-linkage and validity invariants has a block below its height
\* replaced by a block classified Fork, the stored chain satisfies them afterwards,
\* the link of the block above the replaced one included.
C18_ReplaceKeepsInvariants ==
    [][(/\ replaces' = replaces + 1
        /\ ChainInvariants(blocks)
        /\ Unwrap(last_block').index < height) => ChainInvariants(blocks')]_vars

\* C19 (height monotone): across add_block of blocks classified Good and
\* replace_block of blocks classified Fork, the value of height() never decreases.
C19_HeightMonotone == [][height' >= height]_vars

\* a candidate for which check_new_block gets as far as the subtraction
\* height() - full_block.index of the locker rule
ReachesLockerRule(b) ==
    /\ PassesEarlyChecks(b)
    /\ last_block # None
    /\ ~(b.timestamp < Unwrap(last_block).timestamp /\ b.index > Unwrap(last_block).index)
    /\ b.index <= Unwrap(last_block).index + 1
    /\ b.index >= LOCKER_BLOCK_START
    /\ last_full_block # None

\* C20 (validator total): in every reachable chain state check_new_block returns
\* one of Good, Bad, Future, Twin, Fork for every candidate, without looping and
\* without aborting, and the subtraction height() - last_full_block.index never
\* underflows.
C20_ValidatorTotal ==
    \A b \in Candidates :
        /\ check_new_block(b) \in {"Good", "Bad", "Future", "Twin", "Fork"}
        /\ ReachesLockerRule(b) => height >= Unwrap(last_full_block).index

\* a full block for the next height, well formed in everything but its position
FullProbe == Shaped(height + 1, now, 1, last_hash, <<"k1", Some(DomainTx("X", "k1"))>>)

\* C27 (next_allowed_block agrees with the locker rule): in every reachable chain
\* state next_allowed_block() <= height()+1 holds exactly when the locker rule of
\* check_new_block does not reject a full candidate at index height()+1.
C27_NextAllowedAgrees ==
    (next_allowed_block <= height + 1) <=> (LockerRule(FullProbe) = "pass")

-----------------------------------------------------------------------------
(* Name syntax (src/src/commons/mod.rs). A name is a sequence of characters; one
   representative stands for each class: "a" a lowercase letter, "x", "y", "z"
   further lowercase letters, "0" a digit, "A" an uppercase letter. *)

Lower == {"a"}
Digits == {"0"}
Upper == {"A"}
Alphabet == Lower \cup Digits \cup Upper \cup {"-", "."}

\* char::is_ascii_alphanumeric
is_ascii_alphanumeric(c) == c \in Lower \cup Digits \cup Upper \cup {"x", "y", "z"}

\* the loop of check_domain from character i on
RECURSIVE check_domain_from(_, _, _, _, _)
check_domain_from(s, allow_dots, i, last_dot, last_hyphen) ==
    IF i > Len(s) THEN TRUE
    ELSE IF allow_dots /\ s[i] = "."
    THEN (IF last_dot THEN FALSE ELSE check_domain_from(s, allow_dots, i + 1, TRUE, last_hyphen))
    ELSE IF s[i] = "-"
    THEN (IF last_hyphen THEN FALSE ELSE check_domain_from(s, allow_dots, i + 1, last_dot, TRUE))
    ELSE IF ~is_ascii_alphanumeric(s[i]) THEN FALSE
    ELSE check_domain_from(s, allow_dots, i + 1, FALSE, FALSE)

check_domain(s, allow_dots) ==
    IF s # <<>> /\ (s[1] \in {".", "-"} \/ s[Len(s)] \in {".", "-"}) THEN FALSE
    ELSE check_domain_from(s, allow_dots, 1, FALSE, FALSE)

\* all strings over the alphabet up to the bound
Names == UNION {[1..n -> Alphabet] : n \in 0..MaxNameLen}

InitDomain ==
    /\ blocks = <<>>
    /\ domains = <<>>
    /\ zones = <<>>
    /\ last_block = None
    /\ last_full_block = None
    /\ origin = EmptyBytes
    /\ now = 0
    /\ overflow_checks = FALSE
    /\ locker_block_signs = 1
    /\ halted = "no"
    /\ adds = 0
    /\ replaces = 0
    /\ first_commits = {}
    /\ MinerIdle
    /\ checked \in Names
    /\ dots \in BOOLEAN
    /\ answer = None
    /\ zone_cache = {}

CheckDomain ==
    /\ answer = None
    /\ answer' = Some(check_domain(checked, dots))
    /\ UNCHANGED <<chainVars, minerVars, checked, dots, zone_cache>>

SpecDomain == InitDomain /\ [][CheckDomain]_vars

\* the syntax rule as the specification words it
WellFormedName(s, allow_dots) ==
    /\ \A i \in 1..Len(s) : s[i] \in Lower \cup Digits \cup {"-"} \cup (IF allow_dots THEN {"."} ELSE {})
    /\ s # <<>> => (s[1] \notin {".", "-"} /\ s[Len(s)] \notin {".", "-"})
    /\ \A i \in 1..(Len(s) - 1) : ~(s[i] = "." /\ s[i + 1] = ".") /\ ~(s[i] = "-" /\ s[i + 1] = "-")

\* C28 (check_domain): check_domain(name, allow_dots) returns true exactly for the
\* names made only of lowercase letters, digits, '-' and (with allow_dots) '.', that
\* neither start nor end with '.' or '-' and contain neither '..' nor '--'.
C28_CheckDomain ==
    answer # None => (Unwrap(answer) <=> WellFormedName(checked, dots))

-----------------------------------------------------------------------------
(* Names on the chain (chain.rs 317-460). The identities "Z", "X", "Y" of the
   transactions above are the hashes of the names z, x.z and y.z. *)

NameZ == <<"z">>
NameX == <<"x", ".", "z">>
NameY == <<"y", ".", "z">>

\* hash_identity(name, None): one identity per name that is asked about
hash_identity(s) ==
    CASE s = NameZ -> "Z"
      [] s = NameX -> "X"
      [] s = NameY -> "Y"
      [] s = <<>> -> "I"
      [] s = <<"a">> -> "Ia"
      [] s = <<"x", ".", "a">> -> "Ix.a"
      [] s = <<"a", ".", "x", ".", "z">> -> "Ia.x.z"
      [] s = <<"-", "x">> -> "I-x"
      [] s = <<".", "z">> -> "I.z"

\* str::to_lowercase
to_lowercase(s) == [i \in 1..Len(s) |-> IF s[i] \in Upper THEN "a" ELSE s[i]]

DotsOf(s) == {i \in 1..Len(s) : s[i] = "."}

\* domain.rsplitn(2, "."): the part after the last dot first, then the rest
rsplitn2(s) ==
    IF DotsOf(s) = {} THEN <<s>>
    ELSE <<SubSeq(s, MaxOf(DotsOf(s)) + 1, Len(s)), SubSeq(s, 1, MaxOf(DotsOf(s)) - 1)>>

get_domain_zone(domain) == rsplitn2(domain)[1]

is_zone_in_blockchain(zone) ==
    zone \in zone_cache \/ is_id_in_blockchain(hash_identity(zone), TRUE)

is_domain_available(domain, public_key) ==
    IF domain = <<>> THEN FALSE
    ELSE IF ~is_id_available(hash_identity(domain), public_key, FALSE) THEN FALSE
    ELSE LET parts == rsplitn2(domain)
         IN  IF Len(parts) > 1
             THEN IF DotsOf(parts[Len(parts)]) # {} THEN FALSE
                  ELSE is_zone_in_blockchain(parts[1])
             ELSE TRUE

\* SELECT * FROM domains WHERE identity = ? ORDER BY id DESC LIMIT 1, dropped when
\* older than DOMAIN_LIFETIME
get_domain_transaction(domain) ==
    IF domain = <<>> THEN None
    ELSE LET ids == {i \in DOMAIN domains : domains[i].identity = hash_identity(domain)}
         IN  IF ids = {} THEN None
             ELSE IF domains[MaxOf(ids)].timestamp < now - DOMAIN_LIFETIME THEN None
             ELSE Some(domains[MaxOf(ids)])

\* "WrongName" | "WrongZone" | "NotOwned" | "Cooldown" | "Fine"
can_mine_domain(domain, pub_key) ==
    LET lowered == to_lowercase(domain)
        transaction == get_domain_transaction(lowered)
        last == get_last_full_block(Some(pub_key))
        new_id == ~is_id_in_blockchain(hash_identity(lowered), FALSE)
    IN  IF ~check_domain(lowered, TRUE) THEN "WrongName"
        ELSE IF ~is_zone_in_blockchain(get_domain_zone(lowered)) THEN "WrongZone"
        ELSE IF transaction # None /\ Unwrap(transaction).pub_key # pub_key THEN "NotOwned"
        ELSE IF last # None /\ new_id /\ Unwrap(last).timestamp + NEW_DOMAINS_INTERVAL - now > 0
        THEN "Cooldown"
        ELSE "Fine"

\* names a user asks about: registered and free ones, an unknown zone, a third-level
\* name, names with a leading separator
QueryNames ==
    {<<>>, NameZ, NameX, NameY, <<"x", ".", "a">>, <<"a", ".", "x", ".", "z">>,
     <<"-", "x">>, <<".", "z">>}

\* a node restarted on the stored chain after the registration of x.z has expired
InitExpired ==
    /\ blocks \in PersistedChains
    /\ domains = (3 :> Row(NEW_DOMAINS_INTERVAL, DomainTx("X", "k1")))
    /\ zones = (1 :> Row(0, ZoneTx("k2")))
    /\ last_block = LoadLastBlock(blocks)
    /\ last_full_block = LoadLastFullBlock(blocks)
    /\ origin = EmptyBytes
    /\ now = NEW_DOMAINS_INTERVAL + DOMAIN_LIFETIME + 1
    /\ overflow_checks \in BOOLEAN
    /\ locker_block_signs = 1
    /\ halted = "no"
    /\ adds = 0
    /\ replaces = 0
    /\ first_commits = {1, 3}
    /\ MinerIdle
    /\ NoName

SpecExpired == InitExpired /\ [][NextRestart]_vars

\* the committing rows of an identity, in either table, carry this key
FreeOrOwned(identity, key) ==
    /\ \A i \in DOMAIN domains : domains[i].identity = identity => domains[i].pub_key = key
    /\ \A i \in DOMAIN zones : zones[i].identity = identity => zones[i].pub_key = key

\* C29 (is_domain_available): is_domain_available(name, keystore) returns true only
\* if name is non-empty, passes the check_domain syntax, its identity is free or
\* owned by the key, it has at most one dot and, with one dot, the label after the
\* dot is a zone present in the chain.
C29_DomainAvailable ==
    \A n \in QueryNames, k \in Miners :
        is_domain_available(n, k) =>
            /\ n # <<>>
            /\ check_domain(n, TRUE)
            /\ FreeOrOwned(hash_identity(n), k)
            /\ Cardinality(DotsOf(n)) <= 1
            /\ Cardinality(DotsOf(n)) = 1 =>
                   \E i \in DOMAIN zones : zones[i].identity = hash_identity(get_domain_zone(n))

\* the domain block a miner builds for a name at the current time
DomainBlockFor(n, k) ==
    Shaped(height + 1, now, 1, last_hash,
           <<k, Some(Tx("domain", hash_identity(to_lowercase(n)), [zone |-> "z"], k))>>)

\* C30 (can_mine_domain mirrors the validator): when can_mine_domain(name, pub_key)
\* returns Fine, a domain block for name signed by pub_key at the current time
\* passes the transaction checks of check_new_block, also when an earlier commitment
\* of name by another key is older than DOMAIN_LIFETIME; when it returns NotOwned or
\* Cooldown those checks reject the block.
C30_CanMineMirrors ==
    \A n \in QueryNames, k \in Miners :
        /\ can_mine_domain(n, k) = "Fine" => TransactionOk(DomainBlockFor(n, k))
        /\ can_mine_domain(n, k) \in {"NotOwned", "Cooldown"} => ~TransactionOk(DomainBlockFor(n, k))

-----------------------------------------------------------------------------
(* Miner (src/src/miner.rs): the supervisor thread of start_mining_thread, the bus
   subscriber registered there, and the hashing workers of mine_internal. The
   Context mutex is free when ctx_owner = "none"; a step that takes and releases
   it is one action. The job-queue mutex is held by the supervisor from the moment
   it takes a job until mine_internal returns (the guard `lock` lives to the end
   of the loop body). *)

\* a MineJob: the block template and the keystore that signs
Job(index, prev, tx, pub_key, difficulty, keystore) ==
    [index |-> index, prev_block_hash |-> prev, transaction |-> tx, pub_key |-> pub_key,
     difficulty |-> difficulty, keystore |-> keystore]

\* Block::new(None, Bytes::default(), hash, LOCKER_DIFFICULTY) with block.index = index
LockerJob(index, hash, keystore) ==
    Job(index, hash, None, EmptyBytes, LOCKER_DIFFICULTY, keystore)

\* the job of create_domain: index and prev_block_hash are filled in by the miner
FullJob(tx, keystore) == Job(0, EmptyBytes, Some(tx), keystore, TemplateDifficulty(2, Some(tx)), keystore)

\* keystores of this node: a strong one and a weak one
Keystores == {"k1", "kw"}

IsLockerJob(job) == job.index > 0 /\ job.prev_block_hash # EmptyBytes

JobsLocked == sup.pc \in {"took", "spawn", "stuck"}

CtxFree == ctx_owner = "none" /\ halted = "no"

Enqueued == attempt + Len(jobs) + (IF handler = None THEN 0 ELSE 1)

Notified == IF sup.pc = "wait" THEN [sup EXCEPT !.pc = "loop"] ELSE sup

MinerStopped(a, success, full) == [attempt |-> a, success |-> success, full |-> full]

\* Miner::add_block: the UI enqueues a full-block job
EnqueueFull(keystore) ==
    /\ Enqueued < MaxJobs
    /\ ~JobsLocked
    /\ jobs' = Append(jobs, FullJob(DomainTx("X", keystore), keystore))
    /\ sup' = Notified
    /\ UNCHANGED <<chainVars, nameVars, mining, ctx_owner, handler, attempt, workers,
                   live_threads, posted, stopped, appended>>

\* ActionStopMining is published (under the Context mutex) and the subscriber runs
PostStop ==
    /\ CtxFree
    /\ mining
    /\ mining' = FALSE
    /\ stopped' = stopped \cup
           {a \in 1..attempt :
               /\ \A c \in 0..(Threads - 1) :
                      <<a, c>> \in DOMAIN workers /\ workers[<<a, c>>].pc = "hashing"
               /\ workers[<<a, 0>>].job.transaction = None
               /\ IsLockerJob(workers[<<a, 0>>].job)}
    /\ UNCHANGED <<chainVars, nameVars, jobs, sup, ctx_owner, handler, attempt, workers,
                   live_threads, posted, appended>>

\* ActionMineLocker is published: the poster holds the Context mutex, the subscriber
\* loads the mining flag
PostMineLocker(keystore) ==
    /\ CtxFree
    /\ handler = None
    /\ Enqueued < MaxJobs
    /\ handler' = Some([index |-> height + 1, hash |-> last_hash, keystore |-> keystore,
                        saw_mining |-> mining])
    /\ ctx_owner' = "poster"
    /\ UNCHANGED <<chainVars, nameVars, jobs, mining, sup, attempt, workers, live_threads,
                   posted, stopped, appended>>

\* the rest of the subscriber: nothing when the flag was set, else push under the
\* job-queue mutex and notify_all; then the poster releases the Context mutex
HandlerRun ==
    /\ handler # None
    /\ IF Unwrap(handler).saw_mining
       THEN UNCHANGED <<jobs, sup>>
       ELSE /\ ~JobsLocked
            /\ jobs' = Append(jobs, LockerJob(Unwrap(handler).index, Unwrap(handler).hash,
                                              Unwrap(handler).keystore))
            /\ sup' = Notified
    /\ handler' = None
    /\ ctx_owner' = "none"
    /\ UNCHANGED <<chainVars, nameVars, mining, attempt, workers, live_threads, posted,
                   stopped, appended>>

\* supervisor: flag clear, queue not empty: take the first job and set the flag
SupTake ==
    /\ sup.pc = "loop"
    /\ ~mining
    /\ jobs # <<>>
    /\ sup' = [pc |-> "took", job |-> Some(Head(jobs)), spawned |-> 0]
    /\ jobs' = Tail(jobs)
    /\ mining' = TRUE
    /\ attempt' = attempt + 1
    /\ UNCHANGED <<chainVars, nameVars, ctx_owner, handler, workers, live_threads, posted,
                   stopped, appended>>

\* supervisor: flag clear, queue empty: cond_var.wait
SupWait ==
    /\ sup.pc = "loop"
    /\ ~mining
    /\ jobs = <<>>
    /\ sup' = [sup EXCEPT !.pc = "wait"]
    /\ UNCHANGED <<chainVars, nameVars, jobs, mining, ctx_owner, handler, attempt, workers,
                   live_threads, posted, stopped, appended>>

\* mine_internal up to the spawn loop. A locker job is tested for key strength
\* and for staleness; the staleness test posts MinerStopped with context.lock()
\* inside a match whose scrutinee still holds the guard of context.lock(): the
\* second lock on the same thread never returns (std::sync::Mutex), the mutex
\* stays taken or poisoned. Any other job gets index and prev_block_hash
SupPreflight ==
    /\ sup.pc = "took"
    /\ CtxFree
    /\ LET job == Unwrap(sup.job)
       IN  IF IsLockerJob(job)
           THEN IF ~check_public_key_strength(job.keystore, KEYSTORE_DIFFICULTY)
                THEN /\ posted' = Append(posted, MinerStopped(attempt, FALSE, FALSE))
                     /\ mining' = FALSE
                     /\ sup' = [pc |-> "loop", job |-> None, spawned |-> 0]
                     /\ UNCHANGED ctx_owner
                ELSE IF /\ last_block # None
                        /\ (Unwrap(last_block).index > job.index
                            \/ Unwrap(last_block).hash # job.prev_block_hash)
                THEN /\ sup' = [sup EXCEPT !.pc = "stuck"]
                     /\ ctx_owner' = "sup"
                     /\ UNCHANGED <<posted, mining>>
                ELSE /\ sup' = [sup EXCEPT !.pc = "spawn",
                                    !.job = Some([job EXCEPT !.pub_key = job.keystore])]
                     /\ UNCHANGED <<posted, mining, ctx_owner>>
           ELSE /\ sup' = [sup EXCEPT !.pc = "spawn",
                               !.job = Some([job EXCEPT !.index = height + 1,
                                                        !.prev_block_hash = last_hash])]
                /\ UNCHANGED <<posted, mining, ctx_owner>>
    /\ UNCHANGED <<chainVars, nameVars, jobs, handler, attempt, workers, live_threads,
                   stopped, appended>>

\* the spawn loop: one worker thread per iteration, 10 ms apart
SupSpawn ==
    /\ sup.pc = "spawn"
    /\ sup.spawned < Threads
    /\ workers' = (<<attempt, sup.spawned>> :>
                      [pc |-> "spawned", job |-> Unwrap(sup.job), index |-> 0,
                       prev_block_hash |-> EmptyBytes, timestamp |-> 0, random |-> 0])
                  @@ workers
    /\ sup' = [sup EXCEPT !.spawned = sup.spawned + 1]
    /\ UNCHANGED <<chainVars, nameVars, jobs, mining, ctx_owner, handler, attempt,
                   live_threads, posted, stopped, appended>>

\* mine_internal returns, the job-queue guard is dropped
SupReturn ==
    /\ sup.pc = "spawn"
    /\ sup.spawned = Threads
    /\ sup' = [pc |-> "loop", job |-> None, spawned |-> 0]
    /\ UNCHANGED <<chainVars, nameVars, jobs, mining, ctx_owner, handler, attempt, workers,
                   live_threads, posted, stopped, appended>>

LiveOf(a) == IF a \in DOMAIN live_threads THEN live_threads[a] ELSE 0

\* worker: live_threads.fetch_add(1)
WStart(w) ==
    /\ workers[w].pc = "spawned"
    /\ live_threads' = (w[1] :> (LiveOf(w[1]) + 1)) @@ live_threads
    /\ workers' = [workers EXCEPT ![w].pc = "prepare"]
    /\ UNCHANGED <<chainVars, nameVars, jobs, mining, sup, ctx_owner, handler, attempt,
                   posted, stopped, appended>>

\* rand::random() of a worker: the threads draw different values
WorkerRandom(w) == IF w[2] = 0 THEN 1 ELSE 9

\* find_hash, head of the outer loop: random, timestamp, then index and
\* prev_block_hash from the chain; a full block waits while next_allowed_block()
\* is above its index (sleep 1 s and retry: no change of state)
WPrepare(w) ==
    /\ workers[w].pc = "prepare"
    /\ CtxFree
    /\ ~(workers[w].job.transaction # None /\ next_allowed_block > height + 1)
    /\ workers' = [workers EXCEPT ![w].pc = "hashing",
                                  ![w].index = height + 1,
                                  ![w].prev_block_hash =
                                      IF last_block # None THEN last_hash
                                      ELSE workers[w].job.prev_block_hash,
                                  ![w].timestamp = now,
                                  ![w].random = WorkerRandom(w)]
    /\ UNCHANGED <<chainVars, nameVars, jobs, mining, sup, ctx_owner, handler, attempt,
                   live_threads, posted, stopped, appended>>

\* nonce loop: the flag is clear, find_hash returns None; live_threads.fetch_sub(1)
WCancel(w) ==
    /\ workers[w].pc = "hashing"
    /\ ~mining
    /\ live_threads' = [live_threads EXCEPT ![w[1]] = @ - 1]
    /\ workers' = [workers EXCEPT ![w].pc = IF live_threads[w[1]] = 1 THEN "last" ELSE "done"]
    /\ UNCHANGED <<chainVars, nameVars, jobs, mining, sup, ctx_owner, handler, attempt,
                   posted, stopped, appended>>

\* the worker whose fetch_sub returned 1 posts MinerStopped{success: false, full}
WPostLast(w) ==
    /\ workers[w].pc = "last"
    /\ CtxFree
    /\ posted' = Append(posted, MinerStopped(w[1], FALSE, workers[w].job.transaction # None))
    /\ workers' = [workers EXCEPT ![w].pc = "done"]
    /\ UNCHANGED <<chainVars, nameVars, jobs, mining, sup, ctx_owner, handler, attempt,
                   live_threads, stopped, appended>>

\* nonce loop: the flag is set and the digest reaches the difficulty
WFound(w) ==
    /\ workers[w].pc = "hashing"
    /\ mining
    /\ workers' = [workers EXCEPT ![w].pc = "found"]
    /\ UNCHANGED <<chainVars, nameVars, jobs, mining, sup, ctx_owner, handler, attempt,
                   live_threads, posted, stopped, appended>>

\* nonce loop, once a second: the chain has reached the index, start over
WBreak(w) ==
    /\ workers[w].pc = "hashing"
    /\ mining
    /\ CtxFree
    /\ workers[w].index > 1
    /\ height >= workers[w].index
    /\ workers' = [workers EXCEPT ![w].pc = "prepare"]
    /\ UNCHANGED <<chainVars, nameVars, jobs, mining, sup, ctx_owner, handler, attempt,
                   live_threads, posted, stopped, appended>>

\* the block find_hash returned, signed by the keystore of the job
FoundBlock(w) ==
    MkBlock(workers[w].index, workers[w].timestamp, workers[w].job.difficulty,
            workers[w].random, workers[w].job.difficulty, workers[w].prev_block_hash,
            workers[w].job.pub_key, workers[w].job.transaction)

\* the worker that found a block: under the Context mutex sign, classify, append
\* when Good, post MinerStopped{success, full}, clear the flag
WCommit(w) ==
    /\ workers[w].pc = "found"
    /\ CtxFree
    /\ LET block == FoundBlock(w)
           full == block.transaction # None
           v == check_new_block(block)
       IN  IF v = "Good"
           THEN /\ add_block(block)
                /\ adds' = adds + 1
                /\ first_commits' =
                       IF /\ block.index \notin DOMAIN blocks
                          /\ block.transaction # None
                          /\ Unwrap(block.transaction).identity \notin CommittedIdentities(blocks)
                       THEN first_commits \cup {block.index}
                       ELSE first_commits
                /\ posted' = Append(posted, MinerStopped(w[1], TRUE, full))
                /\ appended' = Append(appended, [attempt |-> w[1], cpu |-> w[2],
                                                 after_stop |-> w[1] \in stopped])
                /\ mining' = FALSE
                /\ workers' = [workers EXCEPT ![w].pc = "done"]
           ELSE IF v \in {"panic", "hang"}
           THEN /\ halted' = v
                /\ UNCHANGED <<blocks, domains, zones, last_block, last_full_block, adds,
                               first_commits, posted, appended, mining, workers>>
           ELSE /\ posted' = Append(posted, MinerStopped(w[1], FALSE, full))
                /\ mining' = FALSE
                /\ workers' = [workers EXCEPT ![w].pc = "done"]
                /\ UNCHANGED <<blocks, domains, zones, last_block, last_full_block, halted,
                               adds, first_commits, appended>>
    /\ UNCHANGED <<origin, now, overflow_checks, locker_block_signs, replaces, nameVars, jobs, sup, ctx_owner,
                   handler, attempt, live_threads, stopped>>

\* the job of create_genesis
GenesisJob(keystore) == Job(0, EmptyBytes, None, keystore, TemplateDifficulty(1, None), keystore)

\* a node started on a stored chain that holds the zone z, the miner idle; or a
\* first start, where create_genesis_if_needed has enqueued the genesis job
InitMiner ==
    /\ \/ /\ blocks = (1 :> Persisted1)
          /\ zones = (1 :> Row(0, ZoneTx("k2")))
          /\ first_commits = {1}
          /\ jobs = <<>>
       \/ /\ blocks = <<>>
          /\ zones = <<>>
          /\ first_commits = {}
          /\ jobs = <<GenesisJob("k1")>>
    /\ domains = <<>>
    /\ last_block = LoadLastBlock(blocks)
    /\ last_full_block = LoadLastFullBlock(blocks)
    /\ origin = EmptyBytes
    /\ now = 0
    /\ overflow_checks = FALSE
    /\ locker_block_signs = 1
    /\ halted = "no"
    /\ adds = 0
    /\ replaces = 0
    /\ mining = FALSE
    /\ sup = [pc |-> "loop", job |-> None, spawned |-> 0]
    /\ ctx_owner = "none"
    /\ handler = None
    /\ attempt = 0
    /\ workers = <<>>
    /\ live_threads = <<>>
    /\ posted = <<>>
    /\ stopped = {}
    /\ appended = <<>>
    /\ NoName

Supervisor == SupTake \/ SupWait \/ SupPreflight \/ SupSpawn \/ SupReturn

Worker(w) ==
    \/ WStart(w)
    \/ WPrepare(w)
    \/ WCancel(w)
    \/ WPostLast(w)
    \/ WFound(w)
    \/ WBreak(w)
    \/ WCommit(w)

NextMiner ==
    \/ \E k \in Keystores : EnqueueFull(k)
    \/ \E k \in Keystores : PostMineLocker(k)
    \/ HandlerRun
    \/ PostStop
    \/ SupTake
    \/ SupWait
    \/ SupPreflight
    \/ SupSpawn
    \/ SupReturn
    \/ \E w \in DOMAIN workers : WStart(w)
    \/ \E w \in DOMAIN workers : WPrepare(w)
    \/ \E w \in DOMAIN workers : WCancel(w)
    \/ \E w \in DOMAIN workers : WPostLast(w)
    \/ \E w \in DOMAIN workers : WFound(w)
    \/ \E w \in DOMAIN workers : WBreak(w)
    \/ \E w \in DOMAIN workers : WCommit(w)

SpecMiner == InitMiner /\ [][NextMiner]_vars

\* the threads of the program are scheduled fairly; a hashing worker finds a
\* digest sooner or later
AllWorkers == (1..MaxJobs) \X (0..(Threads - 1))

WorkerStep(w) == w \in DOMAIN workers /\ Worker(w)

FairMiner ==
    /\ WF_vars(HandlerRun)
    /\ WF_vars(Supervisor)
    /\ \A w \in AllWorkers : WF_vars(WorkerStep(w))

SpecMinerFair == SpecMiner /\ FairMiner

(***************************************************************************)
(* The miner: claims                                                       *)
(***************************************************************************)
PostedOf(a) == {i \in 1..Len(posted) : posted[i].attempt = a}

AppendedOf(a) == {i \in 1..Len(appended) : appended[i].attempt = a}

WorkersOf(a) == {w \in DOMAIN workers : w[1] = a}

Returned(a) == \A w \in WorkersOf(a) : workers[w].pc = "done"

\* C21: mining cancel. When ActionStopMining is delivered while the workers of a
\* locker job are all hashing, no block of that attempt is appended afterwards, the
\* flag is false when a worker of the attempt publishes MinerStopped, and
\* eventually every worker of the attempt has returned and
\* MinerStopped{success: false, full: false} has been published for it.
C21_MiningCancel ==
    /\ [][/\ \A i \in 1..Len(appended') : ~appended'[i].after_stop
          /\ \A a \in stopped : PostedOf(a)' # PostedOf(a) => ~mining']_vars
    /\ \A a \in 1..MaxJobs :
           (a \in stopped) ~>
               (/\ Returned(a)
                /\ \E i \in PostedOf(a) : posted[i] = MinerStopped(a, FALSE, FALSE))

\* C22: at most one success per attempt. For every attempt at most one block of
\* its workers is appended to the chain and at most one MinerStopped{success: true}
\* is published; a later finder of the attempt appends nothing.
C22_OneSuccess ==
    \A a \in 1..attempt :
        /\ Cardinality(AppendedOf(a)) <= 1
        /\ Cardinality({i \in PostedOf(a) : posted[i].success}) <= 1

\* C23: MinerStopped is published exactly once per attempt that dispatches workers:
\* never twice, and once every worker of the attempt has returned, once.
C23_StoppedOnce ==
    \A a \in 1..attempt :
        /\ Cardinality(PostedOf(a)) <= 1
        /\ (WorkersOf(a) # {} /\ Cardinality(WorkersOf(a)) = Threads /\ Returned(a))
               => Cardinality(PostedOf(a)) = 1

\* what the subscriber does with a delivered ActionMineLocker{index, hash, keystore}
MineLockerEffect ==
    (handler # None /\ handler' = None) =>
        IF Unwrap(handler).saw_mining
        THEN jobs' = jobs
        ELSE /\ jobs' = Append(jobs, LockerJob(Unwrap(handler).index, Unwrap(handler).hash,
                                               Unwrap(handler).keystore))
             /\ sup.pc = "wait" => sup'.pc = "loop"

\* C24: ActionMineLocker handling. Delivered while the flag is set, the event leaves
\* the job queue unchanged; delivered while the flag is clear, exactly one
\* transaction-less job with the given index, prev_block_hash = hash and
\* LOCKER_DIFFICULTY is appended and the supervisor is woken; every delivered
\* event is handled.
C24_MineLocker ==
    /\ [][MineLockerEffect]_vars
    /\ (handler # None) ~> (handler = None)

\* the part of C24 about the deliveries whose subscriber returns: their effect on
\* the queue and on the supervisor is the stated one
C24_Returned == [][MineLockerEffect]_vars

StaleLocker(job) ==
    /\ IsLockerJob(job)
    /\ check_public_key_strength(job.keystore, KEYSTORE_DIFFICULTY)
    /\ last_block # None
    /\ (Unwrap(last_block).index > job.index
        \/ Unwrap(last_block).hash # job.prev_block_hash)

\* C25: locker pre-flight abandonment. When the supervisor has taken a locker job
\* that the chain has passed, its pre-flight dispatches no workers, publishes
\* exactly one MinerStopped{success: false, full: false}, clears the flag and
\* returns to the loop that serves the next job.
C25_LockerAbandoned ==
    [][(sup.pc = "took" /\ StaleLocker(Unwrap(sup.job)) /\ sup' # sup) =>
           /\ WorkersOf(attempt)' = {}
           /\ posted' = Append(posted, MinerStopped(attempt, FALSE, FALSE))
           /\ ~mining'
           /\ sup'.pc = "loop"]_vars

\* C26: weak-key pre-flight rejection. No worker is ever dispatched for a job, full
\* or locker, whose keystore public key fails the key-strength test.
C26_WeakKeyRejected ==
    \A w \in DOMAIN workers :
        check_public_key_strength(workers[w].job.keystore, KEYSTORE_DIFFICULTY)


-----------------------------------------------------------------------------
(* Committee, caches, zones: claims *)

\* the indexes the walk of get_block_signers(f) can visit
WalkWindow(f) ==
    LET start_index == f.index - (Min(f.index, LOCKER_BLOCK_INTERVAL) - 1)
    IN  start_index..(start_index + LOCKER_BLOCK_INTERVAL - 1)

WellFormedCommittee(f, list) ==
    /\ Len(list) = LOCKER_BLOCK_LOCKERS
    /\ \A i, j \in 1..Len(list) : i # j => list[i] # list[j]
    /\ \A i \in 1..Len(list) : list[i] # f.pub_key
    /\ \A i \in 1..Len(list) :
           \E x \in WalkWindow(f) \cap DOMAIN blocks : blocks[x].pub_key = list[i]

\* C31: committee well-formedness. Whenever get_block_signers(f) returns for a
\* stored full block f with f.index >= LOCKER_BLOCK_START the list has exactly
\* LOCKER_BLOCK_LOCKERS entries, pairwise distinct, none equal to f.pub_key, each
\* the pub_key of a stored block of the walk; below LOCKER_BLOCK_START it is empty.
C31_CommitteeWellFormed ==
    \A i \in FullIds(blocks) :
        LET f == blocks[i]
            signers == get_block_signers(f)
        IN  /\ i < LOCKER_BLOCK_START => (signers.status = "ok" /\ signers.list = <<>>)
            /\ (i >= LOCKER_BLOCK_START /\ signers.status = "ok")
                   => WellFormedCommittee(f, signers.list)

\* a stored full block at or above LOCKER_BLOCK_START whose committee was computed
C31_Witness ==
    \E i \in FullIds(blocks) :
        /\ i >= LOCKER_BLOCK_START
        /\ get_block_signers(blocks[i]).status = "ok"


\* C32: cached last block is the maximum stored block. After every add_block and
\* every replace_block, also when the store rejects the write, the cached
\* last_block equals the stored block with the greatest index.
C32_LastBlockIsMax ==
    IF DOMAIN blocks = {}
    THEN last_block = None
    ELSE last_block = Some(blocks[MaxOf(DOMAIN blocks)])


-----------------------------------------------------------------------------
(* The miner at the locker window: a node restarted on a stored chain whose last
   full block is at LOCKER_BLOCK_START, one full-block job queued, peers sending
   the locker blocks. *)

\* create_domain for y.z by k1
WindowJob == FullJob(DomainTx("Y", "k1"), "k1")

InitWindow ==
    /\ blocks \in PersistedChains
    /\ domains = (3 :> Row(NEW_DOMAINS_INTERVAL, DomainTx("X", "k1")))
    /\ zones = (1 :> Row(0, ZoneTx("k2")))
    /\ last_block = LoadLastBlock(blocks)
    /\ last_full_block = LoadLastFullBlock(blocks)
    /\ origin = EmptyBytes
    /\ now = NEW_DOMAINS_INTERVAL
    /\ overflow_checks = FALSE
    /\ locker_block_signs \in 1..LOCKER_BLOCK_LOCKERS
    /\ halted = "no"
    /\ adds = 0
    /\ replaces = 0
    /\ first_commits = {1, 3}
    /\ jobs = <<WindowJob>>
    /\ mining = FALSE
    /\ sup = [pc |-> "loop", job |-> None, spawned |-> 0]
    /\ ctx_owner = "none"
    /\ handler = None
    /\ attempt = 0
    /\ workers = <<>>
    /\ live_threads = <<>>
    /\ posted = <<>>
    /\ stopped = {}
    /\ appended = <<>>
    /\ NoName

\* locker blocks the peers build on the tip
PeerLockers == {Shaped(height + 1, now, 1, last_hash, <<k, None>>) : k \in {"k2", "k3"}}

\* a block from a peer is classified and appended under the Context mutex
ReceiveFromPeer(block) ==
    /\ CtxFree
    /\ adds < MaxAdds
    /\ ReceiveBlock(block)

NextWindow ==
    \/ PostStop
    \/ SupTake
    \/ SupWait
    \/ SupPreflight
    \/ SupSpawn
    \/ SupReturn
    \/ \E w \in DOMAIN workers : WStart(w)
    \/ \E w \in DOMAIN workers : WPrepare(w)
    \/ \E w \in DOMAIN workers : WCancel(w)
    \/ \E w \in DOMAIN workers : WPostLast(w)
    \/ \E w \in DOMAIN workers : WFound(w)
    \/ \E w \in DOMAIN workers : WBreak(w)
    \/ \E w \in DOMAIN workers : WCommit(w)
    \/ \E block \in PeerLockers : ReceiveFromPeer(block)

SpecWindow == InitWindow /\ [][NextWindow]_vars

FairWindow ==
    /\ WF_vars(Supervisor)
    /\ \A w \in AllWorkers : WF_vars(WorkerStep(w))

SpecWindowFair == SpecWindow /\ FairWindow

\* a worker of a full-block job in the 1 s wait for the locker window
InWindowWait(w) ==
    /\ w \in DOMAIN workers
    /\ workers[w].pc = "prepare"
    /\ workers[w].job.transaction # None
    /\ next_allowed_block > height + 1

\* C33: cancellation reaches sleeping workers. A worker of a full-block job that
\* is in the wait for the locker window while the mining flag is clear returns,
\* eventually, whether or not the window opens.
C33_CancelReachesSleepers ==
    \A w \in AllWorkers :
        (InWindowWait(w) /\ ~mining)
            ~> (w \in DOMAIN workers /\ workers[w].pc \in {"last", "done"})


\* the last full block is at or above LOCKER_BLOCK_START and has at least
\* LOCKER_BLOCK_SIGNS locker blocks above it
LockedIn ==
    /\ last_full_block # None
    /\ Unwrap(last_full_block).index >= LOCKER_BLOCK_START
    /\ height - Unwrap(last_full_block).index >= LOCKER_BLOCK_SIGNS
    /\ \A i \in (Unwrap(last_full_block).index + 1)..height :
           i \in DOMAIN blocks /\ blocks[i].transaction = None

\* C36: full-block mining makes progress. If a full-block job is being served and
\* the last full block f (f.index >= LOCKER_BLOCK_START) has at least
\* LOCKER_BLOCK_SIGNS locker blocks above it, then under fair scheduling and with
\* the flag left set a worker at the head of find_hash eventually leaves the
\* locker-window wait and hashes a block at index height()+1.
C36_FullBlockProgress ==
    \A w \in AllWorkers :
        (/\ w \in DOMAIN workers
         /\ workers[w].pc = "prepare"
         /\ workers[w].job.transaction # None
         /\ LockedIn
         /\ mining
         /\ halted = "no")
            ~> (\/ w \in DOMAIN workers /\ workers[w].pc = "hashing"
                \/ ~mining
                \/ halted # "no")

\* the worker threads that have been spawned and have not left find_hash for good
LiveWorkers == {w \in DOMAIN workers : workers[w].pc \in {"spawned", "prepare", "hashing", "found"}}

\* C34: one job at a time. At every moment all live hashing workers belong to the
\* same mining attempt: no worker of a later job is dispatched while a worker of an
\* earlier attempt is still running.
C34_OneJobAtATime == \A v, w \in LiveWorkers : v[1] = w[1]

\* the supervisor holds the job-queue mutex and waits for the Context mutex while
\* the subscriber holds the Context mutex and waits for the job-queue mutex
LockCycle ==
    /\ handler # None
    /\ ~Unwrap(handler).saw_mining
    /\ ctx_owner = "poster"
    /\ sup.pc = "took"

\* the supervisor requests the Context mutex while it holds it
SelfLock == sup.pc = "stuck" /\ ctx_owner = "sup"

\* C35: deadlock freedom of the miner. In no interleaving of the supervisor, the
\* workers and a publisher of ActionMineLocker or ActionStopMining does a thread
\* wait forever for a mutex: the supervisor and a bus subscriber never wait on each
\* other, and no thread requests the Context mutex while it holds it.
C35_NoDeadlock == ~LockCycle /\ ~SelfLock


\* C39: cached last full block matches the store. After every add_block and
\* replace_block, get_last_full_block(None) is the stored block with the greatest
\* index among the stored blocks that carry a transaction (none if there is
\* none), and its index does not exceed height().
C39_LastFullMatchesStore ==
    LET full == get_last_full_block(None)
    IN  /\ IF FullIds(blocks) = {}
           THEN full = None
           ELSE full = Some(blocks[MaxOf(FullIds(blocks))])
        /\ full # None => Unwrap(full).index <= height


\* the zone names asked about
ZoneQueries == {NameZ, <<"a">>}

\* a call of is_zone_in_blockchain(zone) that finds the zone in the table and
\* remembers it (a call that finds nothing, or finds the name in the set, changes
\* nothing)
IsZoneInBlockchain(zone) ==
    /\ halted = "no"
    /\ zone \notin zone_cache
    /\ is_id_in_blockchain(hash_identity(zone), TRUE)
    /\ zone_cache' = zone_cache \cup {zone}
    /\ UNCHANGED <<chainVars, minerVars, checked, dots, answer>>

NextZones ==
    \/ NextReplace
    \/ \E zone \in ZoneQueries : IsZoneInBlockchain(zone)

\* the chain with add_block, replace_block and the zone queries of the UI
SpecZones == Init /\ [][NextZones]_vars

\* C40: zone memoization is sound. In every state reachable through add_block and
\* replace_block, is_zone_in_blockchain(z) is true only if the zones table holds a
\* row with the identity of z, also after replace_block removed the block that
\* committed z.
C40_ZoneMemoSound ==
    \A z \in ZoneQueries :
        is_zone_in_blockchain(z) => is_id_in_blockchain(hash_identity(z), TRUE)


\* a zone transaction for the name "z" that records another difficulty
ZoneTxAt(key, difficulty) == Tx("zone", "Z", [name |-> "z", difficulty |-> difficulty], key)

\* well-formed zone blocks for z by a key that does not own it
Rezoned ==
    {Shaped(height + 1, now, 1, last_hash, <<"k3", Some(ZoneTxAt("k3", 0))>>)}

NextZoneOwner ==
    \/ \E block \in Mined \cup Rezoned : adds < MaxAdds /\ ReceiveBlock(block)
    \/ Tick

\* appends of honest blocks and of zone blocks that name a zone again
SpecZoneOwner == Init /\ [][NextZoneOwner]_vars

ZoneRows(n) == {i \in DOMAIN zones : IsZoneData(zones[i].data) /\ zones[i].data.name = n}

\* the pub_key that first committed the zone n
ZoneOwner(n) == zones[CHOOSE i \in ZoneRows(n) : \A j \in ZoneRows(n) : i <= j].pub_key

\* C38: zone difficulty is controlled by the zone's owner. For every zone name z
\* the difficulty required of a domain block in z is one recorded in a zone
\* transaction signed by the pub_key that first committed z; a Good zone block by
\* another key does not change the value get_zone_difficulty(z) returns.
C38_ZoneOwnerControls ==
    \A n \in DOMAIN get_zones :
        \E i \in ZoneRows(n) :
            /\ zones[i].pub_key = ZoneOwner(n)
            /\ zones[i].data.difficulty = get_zone_difficulty(n)


\* every well-formed block a strong key can offer on the tip: a locker block, a
\* zone block, a domain block for a name on the chain or for a new one
Offerable ==
    UNION {{Shaped(height + 1, ts, r, last_hash, <<k, tx>>) :
               ts \in {0, now, now + FutureSkew}, r \in Randoms,
               tx \in {None, Some(ZoneTx(k)), Some(DomainTx("X", k)), Some(DomainTx("N", k))}}
           : k \in StrongKeys}

\* C37: the validator never wedges the chain. In every chain state reachable by
\* Good-classified appends there is a block at index height()+1, full or locker,
\* signed by some strong key, that check_new_block classifies Good.
C37_NeverWedged ==
    halted = "no" => \E b \in Offerable : check_new_block(b) = "Good"


====
